---------------------------- MODULE Spec2Model ----------------------------
(***************************************************************************)
(* Model of the Cyber Crime ML service (src/ml_service/main.py): the text  *)
(* rules clean_text, extract_entities, detect_platform, extract_amount,    *)
(* classify_cybercrime_type and severity_from_keywords, and the request    *)
(* handler analyze that composes them.                                     *)
(*                                                                         *)
(* A Python str is modelled as a sequence of characters, each character a  *)
(* one-letter TLA+ string.  The characters outside ASCII that the rules    *)
(* treat specially carry names: "NBSP" (U+00A0), "RUPEE" (U+20B9),         *)
(* "DOTLESS_I" (U+0131), "LONG_S" (U+017F); "TAB" and "LF" are the control *)
(* characters.  An Optional value is None (the empty tuple) or Some(v).    *)
(***************************************************************************)
EXTENDS Integers, Sequences, FiniteSets, TLC

VARIABLES
    pc,        \* position of the request in analyze / the rule that was applied
    file,      \* the uploaded file: content_type, filename, raw (empty or not)
    text,      \* the local variable text of analyze / the argument of a rule
    spans,     \* the entity spans returned by ner_pipeline
    entities,  \* the local variable entities of analyze
    nerCalls,  \* number of ner_pipeline invocations during the current request
    threw,     \* whether the text extraction of the current request raised
    status,    \* HTTP status of the answer (0: not answered yet)
    detail,    \* detail of the HTTPException, if any
    result     \* the 200 response body / the value returned by a rule

vars == <<pc, file, text, spans, entities, nerCalls, threw, status, detail, result>>

---------------------------------------------------------------------------
(* Optional[...] values.                                                   *)
None == <<>>

Some(v) == <<v>>

\* Python truthiness of an Optional[str]: None and "" are both falsy.
Truthy(o) == o # None /\ o[1] # <<>>

---------------------------------------------------------------------------
(* Characters and the str methods the rules use.                           *)
UpperLetters == <<"A", "B", "C", "D", "E", "F", "G", "H", "I", "J", "K", "L", "M", "N", "O", "P", "Q", "R", "S", "T", "U", "V", "W", "X", "Y", "Z">>

LowerLetters == <<"a", "b", "c", "d", "e", "f", "g", "h", "i", "j", "k", "l", "m", "n", "o", "p", "q", "r", "s", "t", "u", "v", "w", "x", "y", "z">>

Digits == <<"0", "1", "2", "3", "4", "5", "6", "7", "8", "9">>

Range(s) == {s[i] : i \in 1..Len(s)}

\* str.lower() on one character.  U+0131 and U+017F are lower-case letters
\* already and map to themselves.
LowerChar(c) ==
    IF \E i \in 1..Len(UpperLetters) : UpperLetters[i] = c
    THEN LowerLetters[CHOOSE i \in 1..Len(UpperLetters) : UpperLetters[i] = c]
    ELSE c

\* str.lower()
lower(s) == [i \in 1..Len(s) |-> LowerChar(s[i])]

\* Whitespace as matched by \s in a str pattern and removed by str.strip().
IsSpace(c) == c \in {" ", "TAB", "LF", "NBSP"}

IsDigit(c) == c \in Range(Digits)

\* \w in a str pattern: alphanumerics (Unicode) and the underscore.
IsWord(c) ==
    \/ c \in Range(UpperLetters) \cup Range(LowerLetters) \cup Range(Digits)
    \/ c \in {"_", "DOTLESS_I", "LONG_S"}

\* k in s (substring test)
Contains(s, k) ==
    \E i \in 1..(Len(s) - Len(k) + 1) : SubSeq(s, i, i + Len(k) - 1) = k

\* s.endswith(suffix)
EndsWith(s, suffix) ==
    /\ Len(s) >= Len(suffix)
    /\ SubSeq(s, Len(s) - Len(suffix) + 1, Len(s)) = suffix

\* any(k in s for k in keys)
AnyIn(keys, s) == \E i \in 1..Len(keys) : Contains(s, keys[i])

\* Two characters match under re.IGNORECASE: equal after lower-casing, or
\* one of the extra equivalences of the re module (i ~ U+0131, s ~ U+017F).
CaseEq(c, p) ==
    LET a == LowerChar(c)
        b == LowerChar(p)
    IN  \/ a = b
        \/ {a, b} = {"i", "DOTLESS_I"}
        \/ {a, b} = {"s", "LONG_S"}

\* The literal lit matches s at position i under re.IGNORECASE.
MatchesAt(s, i, lit) ==
    /\ i >= 1
    /\ i + Len(lit) - 1 <= Len(s)
    /\ \A j \in 1..Len(lit) : CaseEq(s[i + j - 1], lit[j])

\* \b at the gap before position i of s (1 <= i <= Len(s) + 1).
WordBoundary(s, i) ==
    LET before == i > 1 /\ IsWord(s[i - 1])
        after  == i <= Len(s) /\ IsWord(s[i])
    IN  before # after

---------------------------------------------------------------------------
(* clean_text                                                              *)
\* text.replace(NBSP, " ")
replace_nbsp(s) == [i \in 1..Len(s) |-> IF s[i] = "NBSP" THEN " " ELSE s[i]]

RECURSIVE lstrip(_)
lstrip(s) ==
    IF s # <<>> /\ IsSpace(Head(s)) THEN lstrip(Tail(s)) ELSE s

RECURSIVE rstrip(_)
rstrip(s) ==
    IF s # <<>> /\ IsSpace(s[Len(s)]) THEN rstrip(SubSeq(s, 1, Len(s) - 1)) ELSE s

\* str.strip()
strip(s) == rstrip(lstrip(s))

\* re.sub(r"\s+", " ", s): every maximal whitespace run becomes one space.
RECURSIVE collapse_ws(_)
collapse_ws(s) ==
    IF s = <<>> THEN <<>>
    ELSE IF IsSpace(Head(s)) THEN <<" ">> \o collapse_ws(lstrip(Tail(s)))
    ELSE <<Head(s)>> \o collapse_ws(Tail(s))

\* A variant of clean_text that forgets the final strip().
clean_text_no_strip(s) == collapse_ws(replace_nbsp(s))

clean_text(s) == strip(collapse_ws(replace_nbsp(s)))

---------------------------------------------------------------------------
(* extract_entities                                                        *)
\* word.replace("##", "")
RECURSIVE remove_marker(_)
remove_marker(w) ==
    IF w = <<>> THEN <<>>
    ELSE IF Len(w) >= 2 /\ w[1] = "#" /\ w[2] = "#"
         THEN remove_marker(SubSeq(w, 3, Len(w)))
    ELSE <<Head(w)>> \o remove_marker(Tail(w))

\* " ".join(tokens)
RECURSIVE join(_)
join(tokens) ==
    IF tokens = <<>> THEN <<>>
    ELSE IF Len(tokens) = 1 THEN tokens[1]
    ELSE tokens[1] \o <<" ">> \o join(Tail(tokens))

\* A variant of the guard "not data[key]" that is always true.
UnsetAlways(o) == TRUE

\* The guard "not data[key]" of both loops.
Unset(o) == ~Truthy(o)

\* The first loop: name_tokens collects consecutive PER spans, and the buffer
\* is committed at a non-PER span or at the end while no name is set.
RECURSIVE name_loop(_, _, _)
name_loop(rest, name_tokens, name) ==
    IF rest = <<>>
    THEN IF name_tokens # <<>> /\ Unset(name) THEN Some(join(name_tokens)) ELSE name
    ELSE LET ent == Head(rest) IN
         IF ent.entity_group = "PER"
         THEN name_loop(Tail(rest), Append(name_tokens, remove_marker(ent.word)), name)
         ELSE IF name_tokens # <<>> /\ Unset(name)
              THEN name_loop(Tail(rest), <<>>, Some(join(name_tokens)))
              ELSE name_loop(Tail(rest), name_tokens, name)

\* The second loop: location, date and organization.
RECURSIVE field_loop(_, _)
field_loop(rest, data) ==
    IF rest = <<>> THEN data
    ELSE LET label == Head(rest).entity_group
             word  == remove_marker(Head(rest).word)
         IN  IF label \in {"LOC", "GPE"} /\ Unset(data.location)
             THEN field_loop(Tail(rest), [data EXCEPT !.location = Some(word)])
             ELSE IF label = "DATE" /\ Unset(data.date)
             THEN field_loop(Tail(rest), [data EXCEPT !.date = Some(word)])
             ELSE IF label = "ORG" /\ Unset(data.organization)
             THEN field_loop(Tail(rest), [data EXCEPT !.organization = Some(word)])
             ELSE field_loop(Tail(rest), data)

\* The entities of a text on which the NER model was not run.
NullEntities ==
    [name |-> None, location |-> None, date |-> None, organization |-> None]

extract_entities(results) ==
    field_loop(results, [NullEntities EXCEPT !.name = name_loop(results, <<>>, None)])

---------------------------------------------------------------------------
(* detect_platform                                                         *)
\* The alternatives of the pattern, in the order of the pattern.
Vocabulary ==
    << <<"P", "h", "o", "n", "e", "P", "e">>, <<"P", "a", "y", "t", "m">>, <<"G", "o", "o", "g", "l", "e", " ", "P", "a", "y">>, <<"G", "P", "a", "y">>, <<"B", "H", "I", "M">>,
       <<"U", "P", "I">>, <<"S", "B", "I">>, <<"H", "D", "F", "C">>, <<"I", "C", "I", "C", "I">>, <<"A", "x", "i", "s">> >>

\* Alternative k matches s at i as \b(alt)\b.
AltMatches(s, i, k) ==
    /\ MatchesAt(s, i, Vocabulary[k])
    /\ WordBoundary(s, i)
    /\ WordBoundary(s, i + Len(Vocabulary[k]))

\* The first alternative that matches at i, or 0.
AltAt(s, i) ==
    IF \E k \in 1..Len(Vocabulary) : AltMatches(s, i, k)
    THEN CHOOSE k \in 1..Len(Vocabulary) :
            /\ AltMatches(s, i, k)
            /\ \A h \in 1..(k - 1) : ~AltMatches(s, i, h)
    ELSE 0

\* m.group(1): the characters of the text that the group matched.
MatchGroup(s, i, k) == SubSeq(s, i, i + Len(Vocabulary[k]) - 1)

\* re.search: the leftmost position at which the pattern matches.
detect_platform(s) ==
    LET hits == {i \in 1..Len(s) : AltAt(s, i) # 0}
    IN  IF hits = {} THEN None
        ELSE LET i == CHOOSE x \in hits : \A y \in hits : x <= y
             IN  Some(MatchGroup(s, i, AltAt(s, i)))

---------------------------------------------------------------------------
(* extract_amount                                                          *)
\* (?:rs\.?|RUPEE): the positions just after a currency marker that starts
\* at i, in the order in which the pattern tries them.
MarkerEnds(s, i) ==
    IF MatchesAt(s, i, <<"r", "s">>)
    THEN IF i + 2 <= Len(s) /\ s[i + 2] = "." THEN <<i + 3, i + 2>> ELSE <<i + 2>>
    ELSE IF i <= Len(s) /\ s[i] = "RUPEE" THEN <<i + 1>>
    ELSE <<>>

\* \s*: the first position at or after j that holds no whitespace.
RECURSIVE SkipSpaces(_, _)
SkipSpaces(s, j) ==
    IF j <= Len(s) /\ IsSpace(s[j]) THEN SkipSpaces(s, j + 1) ELSE j

\* \d{1,3}: the position after at most three digits starting at k (k itself
\* when s[k] is no digit).
LeadingDigits(s, k) ==
    LET isd(p) == p <= Len(s) /\ IsDigit(s[p])
    IN  IF ~isd(k) THEN k
        ELSE IF ~isd(k + 1) THEN k + 1
        ELSE IF ~isd(k + 2) THEN k + 2
        ELSE k + 3

\* A variant of the thousands groups that matches none.
no_thousands_groups(s, p) == p

\* (?:,\d{3})*: the position after the longest run of ",ddd" groups at p.
RECURSIVE thousands_groups(_, _)
thousands_groups(s, p) ==
    IF /\ p + 3 <= Len(s)
       /\ s[p] = ","
       /\ \A q \in (p + 1)..(p + 3) : IsDigit(s[q])
    THEN thousands_groups(s, p + 4)
    ELSE p

\* The span <<k, e>> of group 1 when the pattern matches with its marker
\* ending before j, or <<>>.
DigitGroup(s, j) ==
    LET k == SkipSpaces(s, j)
        d == LeadingDigits(s, k)
    IN  IF d = k THEN <<>> ELSE <<k, thousands_groups(s, d) - 1>>

\* The span of group 1 of a match that starts at i, or <<>>.
AmountAt(s, i) ==
    LET ends == MarkerEnds(s, i)
        ok   == {n \in 1..Len(ends) : DigitGroup(s, ends[n]) # <<>>}
    IN  IF ok = {} THEN <<>>
        ELSE DigitGroup(s, ends[CHOOSE n \in ok : \A m \in ok : n <= m])

\* .replace(",", "")
remove_commas(w) == SelectSeq(w, LAMBDA c : c # ",")

DigitValue(c) == CHOOSE d \in 0..9 : Digits[d + 1] = c

\* float() of a string of decimal digits (exact: the amounts stay far below 2^53).
RECURSIVE to_number(_)
to_number(w) ==
    IF w = <<>> THEN 0
    ELSE 10 * to_number(SubSeq(w, 1, Len(w) - 1)) + DigitValue(w[Len(w)])

extract_amount(s) ==
    LET hits == {i \in 1..Len(s) : AmountAt(s, i) # <<>>}
    IN  IF hits = {} THEN None
        ELSE LET i == CHOOSE x \in hits : \A y \in hits : x <= y
                 g == AmountAt(s, i)
             IN  Some(to_number(remove_commas(SubSeq(s, g[1], g[2]))))

---------------------------------------------------------------------------
(* classify_cybercrime_type                                                *)
HarassmentKeys ==
    << <<"h", "a", "r", "a", "s", "s", "m", "e", "n", "t">>, <<"b", "l", "a", "c", "k", "m", "a", "i", "l">>, <<"s", "e", "x", "t", "o", "r", "t", "i", "o", "n">>, <<"s", "t", "a", "l", "k", "i", "n", "g">>, <<"t", "h", "r", "e", "a", "t">> >>

RobberyKeys == << <<"r", "o", "b", "b", "e", "r", "y">>, <<"s", "t", "o", "l", "e", "n">>, <<"t", "h", "e", "f", "t">>, <<"s", "n", "a", "t", "c", "h", "e", "d">> >>

BankFraudKeys ==
    << <<"b", "a", "n", "k", " ", "f", "r", "a", "u", "d">>, <<"u", "p", "i">>, <<"p", "h", "o", "n", "e", "p", "e">>, <<"p", "a", "y", "t", "m">>, <<"g", "p", "a", "y">>, <<"g", "o", "o", "g", "l", "e", " ", "p", "a", "y">>, <<"b", "h", "i", "m">>,
       <<"o", "t", "p">>, <<"f", "r", "a", "u", "d">>, <<"s", "c", "a", "m">> >>

PhishingKeys ==
    << <<"p", "h", "i", "s", "h", "i", "n", "g">>, <<"f", "a", "k", "e", " ", "l", "i", "n", "k">>, <<"k", "y", "c">>, <<"v", "e", "r", "i", "f", "y">>, <<"l", "o", "g", "i", "n">>, <<"p", "a", "s", "s", "w", "o", "r", "d">> >>

\* A variant that tests the financial rule before the harassment rule.
classify_fraud_first(s) ==
    LET lw == lower(s)
    IN  IF Contains(lw, <<"a", "c", "i", "d", " ", "a", "t", "t", "a", "c", "k">>)
           \/ (Contains(lw, <<"a", "c", "i", "d">>) /\ Contains(lw, <<"a", "t", "t", "a", "c", "k">>))
        THEN "Acid Attack"
        ELSE IF AnyIn(BankFraudKeys, lw) THEN "Bank Fraud"
        ELSE IF AnyIn(HarassmentKeys, lw) THEN "Cyber Harassment"
        ELSE IF AnyIn(RobberyKeys, lw) THEN "Robbery"
        ELSE IF AnyIn(PhishingKeys, lw) THEN "Phishing"
        ELSE "Online Fraud"

classify_cybercrime_type(s) ==
    LET lw == lower(s)
    IN  IF Contains(lw, <<"a", "c", "i", "d", " ", "a", "t", "t", "a", "c", "k">>)
           \/ (Contains(lw, <<"a", "c", "i", "d">>) /\ Contains(lw, <<"a", "t", "t", "a", "c", "k">>))
        THEN "Acid Attack"
        ELSE IF AnyIn(HarassmentKeys, lw) THEN "Cyber Harassment"
        ELSE IF AnyIn(RobberyKeys, lw) THEN "Robbery"
        ELSE IF AnyIn(BankFraudKeys, lw) THEN "Bank Fraud"
        ELSE IF AnyIn(PhishingKeys, lw) THEN "Phishing"
        ELSE "Online Fraud"

---------------------------------------------------------------------------
(* severity_from_keywords                                                  *)
high == << <<"h", "a", "r", "a", "s", "s", "m", "e", "n", "t">>, <<"a", "c", "i", "d", " ", "a", "t", "t", "a", "c", "k">>, <<"b", "l", "a", "c", "k", "m", "a", "i", "l">>, <<"r", "a", "p", "e">>, <<"a", "s", "s", "a", "u", "l", "t">>, <<"t", "h", "r", "e", "a", "t">> >>

mid == << <<"r", "o", "b", "b", "e", "r", "y">>, <<"s", "t", "o", "l", "e", "n">>, <<"t", "h", "e", "f", "t">> >>

second_high ==
    << <<"b", "a", "n", "k", " ", "f", "r", "a", "u", "d">>, <<"u", "p", "i">>, <<"p", "h", "o", "n", "e", "p", "e">>, <<"p", "a", "y", "t", "m">>, <<"g", "p", "a", "y">>, <<"g", "o", "o", "g", "l", "e", " ", "p", "a", "y">>, <<"b", "h", "i", "m">>,
       <<"o", "t", "p">>, <<"p", "h", "i", "s", "h", "i", "n", "g">>, <<"f", "r", "a", "u", "d">>, <<"s", "c", "a", "m">> >>

\* contains_any: the list matched after the call; it grew by the first key
\* found in lw exactly when the call returned True.
contains_any(keys, lw, matched) ==
    LET found == {i \in 1..Len(keys) : Contains(lw, keys[i])}
    IN  IF found = {} THEN matched
        ELSE Append(matched, keys[CHOOSE i \in found : \A j \in found : i <= j])

Severity(sev, score, matched) ==
    [severity |-> sev, severity_score |-> score, matched_keywords |-> matched]

\* A variant that tests the second_high list before the high list.
severity_second_high_first(s) ==
    LET lw == lower(s)
        m1 == contains_any(second_high, lw, <<>>)
        m2 == contains_any(high, lw, m1)
        m3 == contains_any(mid, lw, m2)
    IN  IF m1 # <<>> THEN Severity("medium", 70, m1)
        ELSE IF m2 # m1 THEN Severity("high", 90, m2)
        ELSE IF m3 # m2 THEN Severity("medium", 50, m3)
        ELSE Severity("low", 30, m3)

severity_from_keywords(s) ==
    LET lw == lower(s)
        m1 == contains_any(high, lw, <<>>)
        m2 == contains_any(second_high, lw, m1)
        m3 == contains_any(mid, lw, m2)
    IN  IF m1 # <<>> THEN Severity("high", 90, m1)
        ELSE IF m2 # m1 THEN Severity("medium", 70, m2)
        ELSE IF m3 # m2 THEN Severity("medium", 50, m3)
        ELSE Severity("low", 30, m3)

---------------------------------------------------------------------------
(* Bounds of the model and the inputs drawn within them.                   *)
MaxTextParts == 2

MaxClassifyParts == 3

MaxSeverityParts == 3

MaxPlatformParts == 3

MaxAmountParts == 3

MaxCleanLen == 5

MaxSpans == 3

\* All concatenations of at most n pieces.
RECURSIVE Texts(_, _)
Texts(pieces, n) ==
    IF n = 0 THEN {<<>>}
    ELSE LET shorter == Texts(pieces, n - 1)
         IN  shorter \cup {t \o p : t \in shorter, p \in pieces}

\* All sequences over S of length at most n.
RECURSIVE SeqsUpTo(_, _)
SeqsUpTo(S, n) ==
    IF n = 0 THEN {<<>>}
    ELSE LET shorter == SeqsUpTo(S, n - 1)
         IN  shorter \cup {Append(t, x) : t \in shorter, x \in S}

\* What OCR or the PDF text layer may yield for an uploaded document.
DocumentPieces ==
    { <<" ">>, <<"NBSP", "LF">>, <<"U", "P", "I">>, <<"u", "p", "i", " ">>, <<"u", "p", "DOTLESS_I">>, <<"t", "h", "r", "e", "a", "t", " ">>, <<"s", "t", "o", "l", "e", "n", " ">>, <<"k", "y", "c">> }

DocumentTexts == Texts(DocumentPieces, MaxTextParts)

\* What the OCR of the rasterized pages may yield for a PDF without text layer.
ScannedTexts == { <<>>, <<"LF">>, <<"o", "t", "p", " ", "s", "c", "a", "m">> }

Span(group, word) == [entity_group |-> group, word |-> word]

JohnSonTexas == << Span("PER", <<"J", "o", "h", "n">>), Span("PER", <<"#", "#", "s", "o", "n">>), Span("LOC", <<"T", "e", "x", "a", "s">>) >>

\* What ner_pipeline may return for a non-empty text.
NerResults == { <<>>, JohnSonTexas, << Span("ORG", <<"S", "B", "I">>), Span("PER", <<"B", "o", "b">>) >> }

ContentTypes == { None, Some(<<"i", "m", "a", "g", "e", "/", "p", "n", "g">>), Some(<<"A", "p", "p", "l", "i", "c", "a", "t", "i", "o", "n", "/", "P", "D", "F">>), Some(<<"t", "e", "x", "t", "/", "p", "l", "a", "i", "n">>) }

Filenames == { <<>>, <<"A", ".", "P", "N", "G">>, <<"a", ".", "p", "d", "f">>, <<"a", ".", "t", "x", "t">> }

Files ==
    [content_type : ContentTypes, filename : Filenames, raw : {"empty", "bytes"}]

NoFile == [content_type |-> None, filename |-> <<>>, raw |-> "none"]

---------------------------------------------------------------------------
(* analyze: POST /analyze                                                  *)
\* ct = (file.content_type or "").lower()
ct(f) == IF f.content_type = None THEN <<>> ELSE lower(f.content_type[1])

\* A variant of is_image that looks at the content type only.
is_image_by_content_type(f) == ct(f) \in { <<"i", "m", "a", "g", "e", "/", "p", "n", "g">>, <<"i", "m", "a", "g", "e", "/", "j", "p", "e", "g">>, <<"i", "m", "a", "g", "e", "/", "j", "p", "g">> }

\* The condition of the image branch.
is_image(f) ==
    \/ ct(f) \in { <<"i", "m", "a", "g", "e", "/", "p", "n", "g">>, <<"i", "m", "a", "g", "e", "/", "j", "p", "e", "g">>, <<"i", "m", "a", "g", "e", "/", "j", "p", "g">> }
    \/ \E suffix \in { <<".", "p", "n", "g">>, <<".", "j", "p", "g">>, <<".", "j", "p", "e", "g">> } : EndsWith(lower(f.filename), suffix)

\* The condition of the PDF branch.
is_pdf(f) ==
    \/ ct(f) = <<"a", "p", "p", "l", "i", "c", "a", "t", "i", "o", "n", "/", "p", "d", "f">>
    \/ EndsWith(lower(f.filename), <<".", "p", "d", "f">>)

\* extract_text_from_pdf_bytes: the text layer unless it is blank, else the OCR
\* of the rasterized pages.
extract_text_from_pdf_bytes(native, scanned) ==
    IF strip(native) # <<>> THEN native ELSE scanned

\* A variant of the guard that runs the NER model on every text.
run_ner_always(t) == TRUE

\* "extract_entities(text) if text else ...": the guard of the NER call.
run_ner(t) == t # <<>>

\* The service accepts a request.
Receive ==
    /\ pc \in {"idle", "done"}
    /\ \E f \in Files : file' = f
    /\ pc' = "read"
    /\ text' = <<>>
    /\ spans' = <<>>
    /\ entities' = NullEntities
    /\ nerCalls' = 0
    /\ threw' = FALSE
    /\ status' = 0
    /\ detail' = ""
    /\ result' = None

\* raw = await file.read(); an empty file is refused.
ReadFile ==
    /\ pc = "read"
    /\ IF file.raw = "empty"
       THEN /\ status' = 400
            /\ detail' = "Empty file"
            /\ pc' = "done"
       ELSE /\ pc' = "extract"
            /\ UNCHANGED <<status, detail>>
    /\ UNCHANGED <<file, text, spans, entities, nerCalls, threw, result>>

\* The extraction raised: except Exception -> HTTPException(500).
ExtractionFails ==
    /\ threw' = TRUE
    /\ status' = 500
    /\ detail' = "Text extraction failed"
    /\ pc' = "done"
    /\ UNCHANGED text

ExtractionYields(t) ==
    /\ text' = t
    /\ pc' = "clean"
    /\ UNCHANGED <<threw, status, detail>>

\* The try block: the branch is chosen by content type or filename extension.
ExtractText ==
    /\ pc = "extract"
    /\ IF is_image(file)
       THEN \/ ExtractionFails
            \/ \E t \in DocumentTexts : ExtractionYields(t)
       ELSE IF is_pdf(file)
       THEN \/ ExtractionFails
            \/ \E native \in DocumentTexts, scanned \in ScannedTexts :
                  ExtractionYields(extract_text_from_pdf_bytes(native, scanned))
       ELSE /\ status' = 400
            /\ detail' = "Unsupported file type. Upload PDF or image."
            /\ pc' = "done"
            /\ UNCHANGED <<text, threw>>
    /\ UNCHANGED <<file, spans, entities, nerCalls, result>>

\* text = clean_text(text)
CleanText ==
    /\ pc = "clean"
    /\ text' = clean_text(text)
    /\ pc' = "entities"
    /\ UNCHANGED <<file, spans, entities, nerCalls, threw, status, detail, result>>

\* entities = extract_entities(text) if text else {all None}
Entities ==
    /\ pc = "entities"
    /\ IF run_ner(text)
       THEN \E r \in NerResults :
               /\ spans' = r
               /\ nerCalls' = nerCalls + 1
               /\ entities' = extract_entities(r)
       ELSE /\ entities' = NullEntities
            /\ UNCHANGED <<spans, nerCalls>>
    /\ pc' = "respond"
    /\ UNCHANGED <<file, text, threw, status, detail, result>>

\* The response body.
Body ==
    LET crime_type == classify_cybercrime_type(text)
        sev        == severity_from_keywords(text)
    IN  [text             |-> text,
         entities         |-> entities,
         crime_type       |-> crime_type,
         category         |-> crime_type,
         platform         |-> IF text # <<>> THEN detect_platform(text) ELSE None,
         amount           |-> IF text # <<>> THEN extract_amount(text) ELSE None,
         severity         |-> sev.severity,
         severity_score   |-> sev.severity_score,
         matched_keywords |-> sev.matched_keywords]

\* classify, score, detect and return the body with status 200.
Respond ==
    /\ pc = "respond"
    /\ result' = Some(Body)
    /\ status' = 200
    /\ pc' = "done"
    /\ UNCHANGED <<file, text, spans, entities, nerCalls, threw, detail>>

Init ==
    /\ pc = "idle"
    /\ file = NoFile
    /\ text = <<>>
    /\ spans = <<>>
    /\ entities = NullEntities
    /\ nerCalls = 0
    /\ threw = FALSE
    /\ status = 0
    /\ detail = ""
    /\ result = None

Next == Receive \/ ReadFile \/ ExtractText \/ CleanText \/ Entities \/ Respond

Spec == Init /\ [][Next]_vars

---------------------------------------------------------------------------
(* The rules on their own: each specification draws the argument of one    *)
(* rule from a bounded set and applies the rule to it.                     *)
\* The state before a rule has been applied to its argument.
RuleInput(t, s) ==
    /\ pc = "input"
    /\ text = t
    /\ spans = s
    /\ file = NoFile
    /\ entities = NullEntities
    /\ nerCalls = 0
    /\ threw = FALSE
    /\ status = 0
    /\ detail = ""
    /\ result = None

\* What the application of a rule to its argument leaves alone.
ruleFrame == <<file, text, spans, entities, nerCalls, threw, status, detail>>

\* clean_text
CleanChars == {"a", " ", "LF", "NBSP"}

CleanInputs == SeqsUpTo(CleanChars, MaxCleanLen)

InitClean == \E t \in CleanInputs : RuleInput(t, <<>>)

CleanOnce ==
    /\ pc = "input"
    /\ pc' = "clean_text"
    /\ result' = clean_text(text)
    /\ UNCHANGED ruleFrame

\* clean_text applied to its own output: text holds the first output.
CleanTwice ==
    /\ pc = "clean_text"
    /\ pc' = "clean_text twice"
    /\ text' = result
    /\ result' = clean_text(result)
    /\ UNCHANGED <<file, spans, entities, nerCalls, threw, status, detail>>

NextClean == CleanOnce \/ CleanTwice

SpecClean == InitClean /\ [][NextClean]_vars

\* extract_entities
SpanChoices ==
    { Span("PER", <<"J", "o", "h", "n">>), Span("PER", <<"#", "#", "s", "o", "n">>), Span("PER", <<"B", "o", "b">>),
      Span("LOC", <<"T", "e", "x", "a", "s">>), Span("GPE", <<"O", "h", "i", "o">>), Span("DATE", <<"M", "a", "y">>),
      Span("DATE", <<"2", "0", "2", "4">>), Span("ORG", <<"S", "B", "I">>), Span("ORG", <<"#", "#", "P", "a", "y">>),
      Span("MISC", <<"U", "P", "I">>) }

SpanInputs == SeqsUpTo(SpanChoices, MaxSpans)

InitEntities == \E s \in SpanInputs : RuleInput(<<>>, s)

ExtractEntities ==
    /\ pc = "input"
    /\ pc' = "extract_entities"
    /\ result' = extract_entities(spans)
    /\ UNCHANGED ruleFrame

NextEntities == ExtractEntities

SpecEntities == InitEntities /\ [][NextEntities]_vars

\* detect_platform
PlatformPieces ==
    { <<"P", "h", "o", "n", "e", "P", "e">>, <<"p", "h", "o", "n", "e", "p", "e">>, <<"U", "P", "I">>, <<"g", "p", "a", "y">>, <<"G", "o", "o", "g", "l", "e">>, <<"P", "a", "y">>, <<"P", "a", "i", "d", " ", "v", "i", "a">>, <<" ">>, <<"x">> }

PlatformInputs == Texts(PlatformPieces, MaxPlatformParts)

InitPlatform == \E t \in PlatformInputs : RuleInput(t, <<>>)

DetectPlatform ==
    /\ pc = "input"
    /\ pc' = "detect_platform"
    /\ result' = detect_platform(text)
    /\ UNCHANGED ruleFrame

NextPlatform == DetectPlatform

SpecPlatform == InitPlatform /\ [][NextPlatform]_vars

\* extract_amount
AmountPieces ==
    { <<"R", "s">>, <<"r", "s", ".">>, <<"RUPEE">>, <<" ">>, <<"1">>, <<"2", "5">>, <<",", "5", "0", "0">>, <<",">>, <<"x">> }

RsDebited == <<"R", "s", ".", " ", "1", "2", ",", "5", "0", "0", " ", "w", "a", "s", " ", "d", "e", "b", "i", "t", "e", "d">>

Rupee500 == <<"RUPEE", "5", "0", "0">>

AmountInputs == Texts(AmountPieces, MaxAmountParts) \cup {RsDebited, Rupee500}

InitAmount == \E t \in AmountInputs : RuleInput(t, <<>>)

ExtractAmount ==
    /\ pc = "input"
    /\ pc' = "extract_amount"
    /\ result' = extract_amount(text)
    /\ UNCHANGED ruleFrame

NextAmount == ExtractAmount

SpecAmount == InitAmount /\ [][NextAmount]_vars

\* classify_cybercrime_type
ClassifyPieces ==
    { <<"T", "H", "R", "E", "A", "T">>, <<"s", "t", "a", "l", "k", "i", "n", "g">>, <<"u", "p", "i">>, <<"a", "c", "i", "d">>, <<"a", "t", "t", "a", "c", "k">>, <<"s", "t", "o", "l", "e", "n">>, <<"l", "o", "g", "i", "n">>, <<" ">> }

ClassifyInputs == Texts(ClassifyPieces, MaxClassifyParts)

InitClassify == \E t \in ClassifyInputs : RuleInput(t, <<>>)

Classify ==
    /\ pc = "input"
    /\ pc' = "classify_cybercrime_type"
    /\ result' = classify_cybercrime_type(text)
    /\ UNCHANGED ruleFrame

NextClassify == Classify

SpecClassify == InitClassify /\ [][NextClassify]_vars

\* severity_from_keywords
SeverityPieces ==
    { <<"H", "a", "r", "a", "s", "s", "m", "e", "n", "t">>, <<"t", "h", "r", "e", "a", "t">>, <<"O", "T", "P">>, <<"t", "h", "e", "f", "t">>, <<"f", "r", "a", "u", "d">>, <<"b", "a", "n", "k", " ">>, <<"g">>, <<"r", "a", "p", "e">> }

SeverityInputs == Texts(SeverityPieces, MaxSeverityParts)

InitSeverity == \E t \in SeverityInputs : RuleInput(t, <<>>)

Score ==
    /\ pc = "input"
    /\ pc' = "severity_from_keywords"
    /\ result' = severity_from_keywords(text)
    /\ UNCHANGED ruleFrame

NextSeverity == Score

SpecSeverity == InitSeverity /\ [][NextSeverity]_vars

---------------------------------------------------------------------------
(* Properties.                                                             *)

\* The least element of a non-empty set of integers.
Least(S) == CHOOSE x \in S : \A y \in S : x <= y

Labels ==
    {"Acid Attack", "Cyber Harassment", "Robbery", "Bank Fraud", "Phishing", "Online Fraud"}

\* Rule n of the cascade, as the specification lists them, applies to lw.
RuleApplies(n, lw) ==
    CASE n = 1 -> Contains(lw, <<"a", "c", "i", "d", " ", "a", "t", "t", "a", "c", "k">>) \/ (Contains(lw, <<"a", "c", "i", "d">>) /\ Contains(lw, <<"a", "t", "t", "a", "c", "k">>))
      [] n = 2 -> \E k \in Range(HarassmentKeys) : Contains(lw, k)
      [] n = 3 -> \E k \in Range(RobberyKeys) : Contains(lw, k)
      [] n = 4 -> \E k \in Range(BankFraudKeys) : Contains(lw, k)
      [] n = 5 -> \E k \in Range(PhishingKeys) : Contains(lw, k)
      [] n = 6 -> TRUE

RuleLabels ==
    <<"Acid Attack", "Cyber Harassment", "Robbery", "Bank Fraud", "Phishing", "Online Fraud">>

\* C1: classify_cybercrime_type returns the label of the first rule, in the
\* order Acid Attack, Cyber Harassment, Robbery, Bank Fraud, Phishing, Online
\* Fraud, that applies to the lower-cased text; in particular a text with a
\* harassment keyword and without both "acid" and "attack" is "Cyber
\* Harassment" whatever robbery, fraud or phishing keyword it also holds, and
\* the result is always one of the six labels.
C1_FirstRuleWins ==
    pc = "classify_cybercrime_type" =>
        LET lw == lower(text)
        IN  /\ result \in Labels
            /\ result = RuleLabels[Least({n \in 1..6 : RuleApplies(n, lw)})]
            /\ (RuleApplies(2, lw) /\ ~(Contains(lw, <<"a", "c", "i", "d">>) /\ Contains(lw, <<"a", "t", "t", "a", "c", "k">>)))
                  => result = "Cyber Harassment"

\* A text with "threat" (in upper case) and "upi" is classified Cyber Harassment.
C1_Witness ==
    /\ pc = "classify_cybercrime_type"
    /\ Contains(text, <<"T", "H", "R", "E", "A", "T">>)
    /\ Contains(text, <<"u", "p", "i">>)
    /\ result = "Cyber Harassment"

\* The tiers as the specification lists them: keys, tier label, score.
Tiers == << <<high, "high", 90>>, <<second_high, "medium", 70>>, <<mid, "medium", 50>> >>

TierHit(n, lw) == \E k \in Range(Tiers[n][1]) : Contains(lw, k)

\* C2: severity_from_keywords returns the first tier in the order high (90),
\* second_high (70), medium (50) that has a keyword in the lower-cased text,
\* with matched_keywords holding exactly the first keyword of that tier's list
\* that occurs in the text; with no tier hit it returns low/30 and no keyword.
C2_FirstTierWins ==
    pc = "severity_from_keywords" =>
        LET lw   == lower(text)
            hits == {n \in 1..3 : TierHit(n, lw)}
        IN  IF hits = {}
            THEN result = Severity("low", 30, <<>>)
            ELSE LET tier == Tiers[Least(hits)]
                     keys == tier[1]
                 IN  /\ result.severity = tier[2]
                     /\ result.severity_score = tier[3]
                     /\ Len(result.matched_keywords) = 1
                     /\ \E i \in 1..Len(keys) :
                           /\ result.matched_keywords[1] = keys[i]
                           /\ Contains(lw, keys[i])
                           /\ \A j \in 1..(i - 1) : ~Contains(lw, keys[j])

\* A text with "harassment" and "otp" scores high/90 on "harassment".
C2_Witness ==
    /\ pc = "severity_from_keywords"
    /\ Contains(lower(text), <<"h", "a", "r", "a", "s", "s", "m", "e", "n", "t">>)
    /\ Contains(lower(text), <<"o", "t", "p">>)
    /\ result = Severity("high", 90, << <<"h", "a", "r", "a", "s", "s", "m", "e", "n", "t">> >>)

\* C3: for the spans [PER "John", PER "##son", LOC "Texas"] extract_entities
\* resolves name to "Johnson" and location to "Texas".
C3_JohnsonMerged ==
    (pc = "extract_entities" /\ spans = JohnSonTexas) =>
        /\ result.name = Some(<<"J", "o", "h", "n", "s", "o", "n">>)
        /\ result.location = Some(<<"T", "e", "x", "a", "s">>)

\* The first index of s whose span is tagged with one of groups, or 0.
FirstTagged(s, groups) ==
    LET tagged == {i \in 1..Len(s) : s[i].entity_group \in groups}
    IN  IF tagged = {} THEN 0 ELSE Least(tagged)

\* The text of the first span tagged with one of groups, if any.
FirstOf(s, groups) ==
    LET i == FirstTagged(s, groups)
    IN  IF i = 0 THEN None ELSE Some(remove_marker(s[i].word))

\* The texts of the first maximal run of consecutive PER spans, joined by spaces.
FirstPersonRun(s) ==
    LET i == FirstTagged(s, {"PER"})
    IN  IF i = 0 THEN None
        ELSE LET j == CHOOSE e \in i..Len(s) :
                        /\ \A k \in i..e : s[k].entity_group = "PER"
                        /\ (e = Len(s) \/ s[e + 1].entity_group # "PER")
             IN  Some(join([k \in 1..(j - i + 1) |-> remove_marker(s[i + k - 1].word)]))

\* C4: extract_entities keeps one value per category, the first in scan order:
\* name is the first maximal run of consecutive PER spans, location, date and
\* organization are the first span tagged LOC/GPE, DATE and ORG; later spans of
\* a category change nothing and a category without a span is None.
C4_FirstValueWins ==
    pc = "extract_entities" =>
        /\ result.name = FirstPersonRun(spans)
        /\ result.location = FirstOf(spans, {"LOC", "GPE"})
        /\ result.date = FirstOf(spans, {"DATE"})
        /\ result.organization = FirstOf(spans, {"ORG"})

\* Two PER runs around a location: the name is the first run.
C4_Witness ==
    /\ pc = "extract_entities"
    /\ Len(spans) = 3
    /\ spans[1] = Span("PER", <<"J", "o", "h", "n">>)
    /\ spans[2].entity_group \in {"LOC", "GPE"}
    /\ spans[3] = Span("PER", <<"B", "o", "b">>)
    /\ result.name = Some(<<"J", "o", "h", "n">>)
    /\ result.date = None

\* Vocabulary word k occurs in s at i as a whole word, in any letter case.
WholeWordAt(s, i, k) ==
    LET n == Len(Vocabulary[k])
    IN  /\ MatchesAt(s, i, Vocabulary[k])
        /\ (i = 1 \/ ~IsWord(s[i - 1]))
        /\ (i + n > Len(s) \/ ~IsWord(s[i + n]))

\* C5: detect_platform returns, for the first whole-word case-insensitive match
\* of the vocabulary in document order, the word as the vocabulary spells it,
\* not as the text spells it, and None when no vocabulary word occurs.
C5_VocabularyFormReturned ==
    pc = "detect_platform" =>
        LET at == {i \in 1..Len(text) : \E k \in 1..Len(Vocabulary) : WholeWordAt(text, i, k)}
        IN  IF at = {} THEN result = None
            ELSE \E k \in 1..Len(Vocabulary) :
                    /\ WholeWordAt(text, Least(at), k)
                    /\ result = Some(Vocabulary[k])

\* s has a currency marker: "rs" in any letter case, or the rupee sign.
HasMarker(s) ==
    \E i \in 1..Len(s) : MatchesAt(s, i, <<"r", "s">>) \/ s[i] = "RUPEE"

\* A currency marker starts at i and, after optional whitespace, a digit
\* stands at k.
MarkerThenDigit(s, i, k) ==
    /\ k <= Len(s)
    /\ IsDigit(s[k])
    /\ \E j \in (i + 1)..k :
          /\ \/ (j = i + 1 /\ s[i] = "RUPEE")
             \/ (j = i + 2 /\ MatchesAt(s, i, <<"r", "s">>))
             \/ (j = i + 3 /\ MatchesAt(s, i, <<"r", "s">>) /\ s[i + 2] = ".")
          /\ \A q \in j..(k - 1) : IsSpace(s[q])

\* w is a digit group: 1-3 digits, then zero or more groups of a comma and
\* exactly three digits.
IsDigitGroup(w) ==
    \E n \in 1..3 :
        /\ n <= Len(w)
        /\ (Len(w) - n) % 4 = 0
        /\ \A q \in 1..Len(w) :
              IF q > n /\ (q - n) % 4 = 1 THEN w[q] = "," ELSE IsDigit(w[q])

IndicatesImageOrPdf(f) ==
    LET declared == IF f.content_type = None THEN <<>> ELSE lower(f.content_type[1])
        name     == lower(f.filename)
    IN  \/ declared \in { <<"i", "m", "a", "g", "e", "/", "p", "n", "g">>, <<"i", "m", "a", "g", "e", "/", "j", "p", "e", "g">>, <<"i", "m", "a", "g", "e", "/", "j", "p", "g">>, <<"a", "p", "p", "l", "i", "c", "a", "t", "i", "o", "n", "/", "p", "d", "f">> }
        \/ \E ext \in { <<".", "p", "n", "g">>, <<".", "j", "p", "g">>, <<".", "j", "p", "e", "g">>, <<".", "p", "d", "f">> } :
              /\ Len(name) >= Len(ext)
              /\ \A q \in 1..Len(ext) : name[Len(name) - Len(ext) + q] = ext[q]

\* C7: every answered request has the status its input determines: 400 for an
\* empty file or a type that is neither image nor PDF, 500 with the extraction
\* failure message when the extraction of a non-empty supported file raised,
\* 200 otherwise; an error answer carries no analysis result.
C7_StatusFromInput ==
    pc = "done" =>
        LET empty     == file.raw = "empty"
            supported == IndicatesImageOrPdf(file)
        IN  /\ (empty \/ ~supported) => status = 400
            /\ (~empty /\ supported /\ threw) =>
                  (status = 500 /\ detail = "Text extraction failed")
            /\ (~empty /\ supported /\ ~threw) => (status = 200 /\ result # None)
            /\ status \in {400, 500, 200}
            /\ status # 200 => result = None

\* A non-empty .txt upload declared text/plain is refused with 400.
C7_Witness ==
    /\ pc = "done"
    /\ file.raw = "bytes"
    /\ file.filename = <<"a", ".", "t", "x", "t">>
    /\ file.content_type = Some(<<"t", "e", "x", "t", "/", "p", "l", "a", "i", "n">>)
    /\ status = 400
    /\ result = None

\* The position of a request in analyze.
Stage(p) ==
    CASE p = "idle" -> 0
      [] p = "read" -> 1
      [] p = "extract" -> 2
      [] p = "clean" -> 3
      [] p = "entities" -> 4
      [] p = "respond" -> 5
      [] p = "done" -> 6

\* The answer to an empty normalized text, and when the NER model has run.
C8_State ==
    /\ nerCalls \in {0, 1}
    /\ nerCalls > 0 =>
          /\ pc \in {"respond", "done"}
          /\ ~threw
          /\ status \in {0, 200}
          /\ text # <<>>
          /\ text = clean_text(text)
    /\ (pc = "done" /\ status = 200 /\ text = <<>>) =>
          /\ nerCalls = 0
          /\ result[1].entities = NullEntities
          /\ result[1].platform = None
          /\ result[1].amount = None
          /\ result[1].crime_type = "Online Fraud"
          /\ result[1].severity = "low"
          /\ result[1].severity_score = 30

\* A step of a request moves forward; the text is set by the extraction and
\* the normalization only; the NER model runs in the entities step only.
C8_Step ==
    \/ pc' = "read"
    \/ /\ Stage(pc') > Stage(pc)
       /\ text' # text => pc \in {"extract", "clean"}
       /\ nerCalls' # nerCalls => (pc = "entities" /\ text # <<>> /\ pc' = "respond")
       /\ pc = "respond" => Stage(pc') = 6

\* C8: when the normalized text is empty the NER model is not invoked and the
\* response has all-null entities, null platform and amount, "Online Fraud"
\* and low/30; the steps of a request run strictly forward and the NER model
\* is invoked only after an extraction that succeeded and gave a non-empty
\* normalized text.
C8_EmptyTextSkipsNer == [](C8_State) /\ [][C8_Step]_vars

\* A 200 answer to a document whose text is empty after normalization.
C8_Witness ==
    /\ pc = "done"
    /\ status = 200
    /\ file.raw = "bytes"
    /\ text = <<>>
    /\ nerCalls = 0
    /\ result[1].crime_type = "Online Fraud"

\* C9: clean_text is idempotent (applied to its own output it returns it),
\* and its output holds no non-breaking space, no whitespace other than single
\* ordinary spaces, and no space at either end.
C9_CleanIdempotent ==
    /\ pc = "clean_text twice" => result = text
    /\ pc \in {"clean_text", "clean_text twice"} =>
          /\ \A i \in 1..Len(result) : IsSpace(result[i]) => result[i] = " "
          /\ \A i \in 1..(Len(result) - 1) : ~(result[i] = " " /\ result[i + 1] = " ")
          /\ result # <<>> => (result[1] # " " /\ result[Len(result)] # " ")

\* clean_text applied again to an output that holds two words.
C9_Witness ==
    /\ pc = "clean_text twice"
    /\ result = <<"a", " ", "a">>

\* p is a match of one of the payment apps PhonePe, Paytm, Google Pay, GPay,
\* BHIM, UPI (the first six alternatives) in some letter case.
IsPaymentApp(p) ==
    /\ p # None
    /\ \E k \in 1..6 : Len(p[1]) = Len(Vocabulary[k]) /\ MatchesAt(p[1], 1, Vocabulary[k])

\* C10: in every 200 response, a platform that is a payment app comes with a
\* severity_score of at least 70 and a crime_type that is neither "Phishing"
\* nor "Online Fraud"; the (severity, severity_score) pair is one of
\* (high, 90), (medium, 70), (medium, 50), (low, 30); category = crime_type.
C10_PaymentAppIsScored ==
    (pc = "done" /\ status = 200) =>
        LET body == result[1]
        IN  /\ IsPaymentApp(body.platform) =>
                  /\ body.severity_score >= 70
                  /\ body.crime_type \notin {"Phishing", "Online Fraud"}
            /\ <<body.severity, body.severity_score>> \in
                  { <<"high", 90>>, <<"medium", 70>>, <<"medium", 50>>, <<"low", 30>> }
            /\ body.category = body.crime_type

=============================================================================
